---- MODULE Spec2Model ----
(***************************************************************************)
(* Model of flac2mp3.py: the Taginfo facade over a FLAC tag container, the *)
(* Retagger.retag() mapping pass into an EasyID3 container, and the        *)
(* Recoder directory run that drives them.                                 *)
(*                                                                         *)
(* A FLAC tag container (mutagen VComment) is a list of (key, value)       *)
(* entries; a field with several values is several entries with the same  *)
(* key.  Lookup by key is case-insensitive and returns the list of all     *)
(* values of the key in file order.                                        *)
(***************************************************************************)
EXTENDS Integers, Sequences, FiniteSets, TLC

VARIABLES
    tags,        \* self.flac.tags : the entries of the FLAC being handled
    flac_keys,   \* self.flac_keys : list of active (upper-cased) keys
    id3,         \* self.id3       : destination container, lower-cased key -> value
    writes,      \* the calls self.id3[key] = ... made so far: <<rule group, key>>
    valid_keys,  \* EasyID3.valid_keys (class-wide registry of destination keys)
    count,       \* self.count     : item count, 0 when not supplied (None/False)
    multidisc,   \* self.multidisc : multi-disc flag
    pc,          \* position in retag() / in the directory run
    ret,         \* outcome of the last call made on the Taginfo object
    files,       \* directory run: the tag entries of every FLAC of the directory
    idx,         \* directory run: index of the item being handled
    scan,        \* directory run: flac_keys of the Taginfo objects of __get_multidisc
    namer,       \* directory run: flac_keys of the Taginfo object of the dir name
    newdir       \* directory run: TRUE for recode_new_dir, FALSE for recode_dir

vars == <<tags, flac_keys, id3, writes, valid_keys, count, multidisc, pc, ret,
          files, idx, scan, namer, newdir>>

----------------------------------------------------------------------------
(* Bounds *)

MaxTags == 4
MaxCount == 1
NumFlacs == 2

----------------------------------------------------------------------------
(* Strings: case conversion, strip, int(), str() over the modelled universe *)

\* str.upper() on the keys that occur in the modelled files
Upper(k) ==
    CASE k = "Title" -> "TITLE"
      [] k = "Album Artist" -> "ALBUM ARTIST"
      [] OTHER -> k

\* str.lower() on the keys that occur in the modelled files
Lower(k) ==
    CASE k = "ARTIST" -> "artist"
      [] k = "TITLE" -> "title"
      [] k = "Title" -> "title"
      [] k = "ALBUM" -> "album"
      [] k = "ALBUMARTIST" -> "albumartist"
      [] k = "ALBUM ARTIST" -> "album artist"
      [] k = "Album Artist" -> "album artist"
      [] k = "PERFORMER" -> "performer"
      [] k = "COMPOSER" -> "composer"
      [] k = "DATE" -> "date"
      [] k = "GENRE" -> "genre"
      [] k = "TRACKNUMBER" -> "tracknumber"
      [] k = "TRACKTOTAL" -> "tracktotal"
      [] k = "TOTALTRACKS" -> "totaltracks"
      [] k = "DISCNUMBER" -> "discnumber"
      [] k = "DISCTOTAL" -> "disctotal"
      [] k = "TOTALDISCS" -> "totaldiscs"
      [] k = "COPYRIGHT" -> "copyright"
      [] k = "COMMENT" -> "comment"
      [] OTHER -> k

\* str.strip(): the blank values of the universe are "" and " "
Strip(v) == IF v \in {"", " "} THEN "" ELSE v

\* int(): defined on decimal strings only, raises ValueError otherwise
IsInt(v) == v \in {"1", "2", "3"}

IntOf(v) == CASE v = "1" -> 1 [] v = "2" -> 2 [] v = "3" -> 3 [] OTHER -> 0

\* '/'.join([a, b])
Join(a, b) == a \o "/" \o b

----------------------------------------------------------------------------
(* Python list helpers *)

\* x in s
In(x, s) == \E i \in 1..Len(s) : s[i] = x

\* s.remove(x): removes the first occurrence only (the caller checks x in s)
Remove(s, x) ==
    LET i == CHOOSE j \in 1..Len(s) : s[j] = x /\ \A h \in 1..(j-1) : s[h] # x
    IN  SubSeq(s, 1, i-1) \o SubSeq(s, i+1, Len(s))

\* number of occurrences of x in s
Occ(x, s) == Cardinality({i \in 1..Len(s) : s[i] = x})

----------------------------------------------------------------------------
(* mutagen containers *)

\* self.flac[key]: the values of every entry whose key equals key, ignoring case
FlacGet(t, key) ==
    LET F[i \in 0..Len(t)] ==
            IF i = 0 THEN <<>>
            ELSE IF Lower(t[i][1]) = Lower(key) THEN Append(F[i-1], t[i][2])
                 ELSE F[i-1]
    IN  F[Len(t)]

\* key in self.flac
FlacHas(t, key) == FlacGet(t, key) # <<>>

\* the keys registered in EasyID3 when the program starts (mutagen defaults)
DefaultValidKeys ==
    {"album", "bpm", "compilation", "composer", "copyright", "encodedby",
     "lyricist", "length", "media", "mood", "grouping", "title", "version",
     "artist", "albumartist", "conductor", "arranger", "discnumber",
     "organization", "tracknumber", "author", "albumartistsort", "albumsort",
     "composersort", "artistsort", "titlesort", "isrc", "discsubtitle",
     "language", "genre", "date", "originaldate", "performer:*",
     "musicbrainz_trackid", "website", "replaygain_*_gain",
     "replaygain_*_peak", "musicbrainz_artistid", "musicbrainz_albumid",
     "musicbrainz_albumartistid", "musicbrainz_trmid", "musicip_puid",
     "musicip_fingerprint", "musicbrainz_albumstatus",
     "musicbrainz_albumtype", "releasecountry", "musicbrainz_discid", "asin",
     "performer", "barcode", "catalognumber", "musicbrainz_releasetrackid",
     "musicbrainz_releasegroupid", "musicbrainz_workid",
     "acoustid_fingerprint", "acoustid_id"}

\* self.id3[key] = value: EasyID3 looks the key up lower-cased
Id3Set(d, key, value) ==
    [k \in DOMAIN d \cup {Lower(key)} |-> IF k = Lower(key) THEN value ELSE d[k]]

EmptyId3 == [k \in {} |-> ""]

----------------------------------------------------------------------------
(* Taginfo *)

\* Taginfo.__init__: one key per ENTRY whose field has a non-blank first value
InitialKeys(t) ==
    LET F[i \in 0..Len(t)] ==
            IF i = 0 THEN <<>>
            ELSE IF Strip(FlacGet(t, t[i][1])[1]) # ""
                 THEN Append(F[i-1], Upper(t[i][1]))
                 ELSE F[i-1]
    IN  F[Len(t)]

NewFlacKeys(t) ==
    LET ks == InitialKeys(t)
    IN  IF /\ In("ALBUM ARTIST", ks)
           /\ In("ALBUMARTIST", ks)
           /\ FlacGet(t, "ALBUM ARTIST") = FlacGet(t, "ALBUMARTIST")
        THEN Remove(ks, "ALBUM ARTIST")
        ELSE ks

\* Taginfo.has
Has(ks, key) == IF In(key, ks) THEN key # "" ELSE FALSE

\* Taginfo.consume, the value returned: the first value of the field
ConsumeValue(t, key) == FlacGet(t, key)[1]

\* Taginfo.consume, the effect on flac_keys
ConsumeKeys(ks, key) == Remove(ks, key)

----------------------------------------------------------------------------
(* Retagger: the rule groups of retag().  A rule group maps the record     *)
(* [keys, id3, writes, valid] (flac_keys, id3, the assignments made, and   *)
(* EasyID3.valid_keys) to its value after the group has run.               *)

\* self.id3[key] = self.consume(key), made by rule group g
Transfer(st, t, g, key) ==
    [keys   |-> ConsumeKeys(st.keys, key),
     id3    |-> Id3Set(st.id3, key, ConsumeValue(t, key)),
     writes |-> Append(st.writes, <<g, Lower(key)>>),
     valid  |-> st.valid]

\* self.id3[dest] = '/'.join([self.consume(key), total]) where total is a value
TransferJoined(st, t, g, dest, key, total) ==
    [keys   |-> ConsumeKeys(st.keys, key),
     id3    |-> Id3Set(st.id3, dest, Join(ConsumeValue(t, key), total)),
     writes |-> Append(st.writes, <<g, Lower(dest)>>),
     valid  |-> st.valid]

\* self.consume(key) with the value thrown away
Discard(st, key) == [st EXCEPT !.keys = ConsumeKeys(st.keys, key)]

EssentialKeys == <<"ARTIST", "TITLE", "ALBUM", "ALBUMARTIST",
                   "PERFORMER", "COMPOSER", "DATE", "GENRE">>

\* retag(), "set essentials"
SetEssentials(st, t) ==
    LET F[i \in 0..Len(EssentialKeys)] ==
            IF i = 0 THEN st
            ELSE IF In(EssentialKeys[i], F[i-1].keys)
                 THEN Transfer(F[i-1], t, "essentials", EssentialKeys[i])
                 ELSE F[i-1]
    IN  F[Len(EssentialKeys)]

\* __set_tracks: there is no branch for a track number without any total
SetTracks(st, t, cnt) ==
    IF In("TRACKNUMBER", st.keys)
    THEN IF In("TRACKTOTAL", st.keys)
         THEN Discard(TransferJoined(st, t, "tracks", "tracknumber", "TRACKNUMBER",
                                     ConsumeValue(t, "TRACKTOTAL")), "TRACKTOTAL")
         ELSE IF In("TOTALTRACKS", st.keys)
         THEN Discard(TransferJoined(st, t, "tracks", "tracknumber", "TRACKNUMBER",
                                     ConsumeValue(t, "TOTALTRACKS")), "TOTALTRACKS")
         ELSE IF cnt # 0
         THEN TransferJoined(st, t, "tracks", "tracknumber", "TRACKNUMBER",
                             ToString(cnt))
         ELSE st
    ELSE st

DiscKeys == <<"DISCNUMBER", "TOTALDISCS", "DISCTOTAL">>

\* __set_discs, "drop discs stuff at all if not multidisc": flac_keys.remove
DropDiscs(st) ==
    LET F[i \in 0..Len(DiscKeys)] ==
            IF i = 0 THEN st
            ELSE IF In(DiscKeys[i], F[i-1].keys)
                 THEN [F[i-1] EXCEPT !.keys = Remove(F[i-1].keys, DiscKeys[i])]
                 ELSE F[i-1]
    IN  F[Len(DiscKeys)]

\* __set_discs
SetDiscs(st, t, multi) ==
    LET set == IF /\ multi
                  /\ In("DISCNUMBER", st.keys)
                  /\ (In("DISCTOTAL", st.keys) \/ In("TOTALDISCS", st.keys))
               THEN IF In("DISCTOTAL", st.keys)
                    THEN Discard(TransferJoined(st, t, "discs", "discnumber",
                                     "DISCNUMBER", ConsumeValue(t, "DISCTOTAL")),
                                 "DISCTOTAL")
                    ELSE Discard(TransferJoined(st, t, "discs", "discnumber",
                                     "DISCNUMBER", ConsumeValue(t, "TOTALDISCS")),
                                 "TOTALDISCS")
               ELSE st
    IN  IF ~multi THEN DropDiscs(set) ELSE set

UnneededKeys == <<"DISCNUMBER", "TOTALDISCS", "DISCTOTAL",
                  "TRACKNUMBER", "TOTALTRACKS", "TRACKTOTAL">>

\* retag(), "drop definitely unneeded tags": one consume per listed key
DropUnneeded(st) ==
    LET F[i \in 0..Len(UnneededKeys)] ==
            IF i = 0 THEN st
            ELSE IF In(UnneededKeys[i], F[i-1].keys)
                 THEN Discard(F[i-1], UnneededKeys[i])
                 ELSE F[i-1]
    IN  F[Len(UnneededKeys)]

\* retag(), "check for known remaining tags": loop over a copy of flac_keys
SetKnown(st, t) ==
    LET copy == st.keys
        F[i \in 0..Len(copy)] ==
            IF i = 0 THEN st
            ELSE IF Lower(copy[i]) \in st.valid
                 THEN Transfer(F[i-1], t, "known", copy[i])
                 ELSE F[i-1]
    IN  F[Len(copy)]

\* a loop over the distinct keys (set(self.flac_keys)) instead of the copy
CustomCopyDistinct(ks) ==
    LET F[i \in 0..Len(ks)] ==
            IF i = 0 THEN <<>>
            ELSE IF In(ks[i], F[i-1]) THEN F[i-1] ELSE Append(F[i-1], ks[i])
    IN  F[Len(ks)]

\* the keys the custom loop visits: self.flac_keys[:]
CustomCopy(ks) == ks

\* retag(), "add remaining keys to TXXX frames": loop over a copy of flac_keys
SetCustom(st, t) ==
    LET copy == CustomCopy(st.keys)
        F[i \in 0..Len(copy)] ==
            IF i = 0 THEN st
            ELSE [Transfer(F[i-1], t, "custom", copy[i])
                    EXCEPT !.valid = F[i-1].valid \cup {Lower(copy[i])}]
    IN  F[Len(copy)]

Cur == [keys |-> flac_keys, id3 |-> id3, writes |-> writes, valid |-> valid_keys]

Becomes(st) ==
    /\ flac_keys' = st.keys
    /\ id3' = st.id3
    /\ writes' = st.writes
    /\ valid_keys' = st.valid

Frame == UNCHANGED <<tags, count, multidisc, ret, files, idx, scan, namer, newdir>>

Essentials ==
    /\ pc = "essentials"
    /\ Becomes(SetEssentials(Cur, tags))
    /\ pc' = "tracks"
    /\ Frame

Tracks ==
    /\ pc = "tracks"
    /\ Becomes(SetTracks(Cur, tags, count))
    /\ pc' = "discs"
    /\ Frame

Discs ==
    /\ pc = "discs"
    /\ Becomes(SetDiscs(Cur, tags, multidisc))
    /\ pc' = "drop"
    /\ Frame

Drop ==
    /\ pc = "drop"
    /\ Becomes(DropUnneeded(Cur))
    /\ pc' = "known"
    /\ Frame

Known ==
    /\ pc = "known"
    /\ Becomes(SetKnown(Cur, tags))
    /\ pc' = "custom"
    /\ Frame

Custom ==
    /\ pc = "custom"
    /\ Becomes(SetCustom(Cur, tags))
    /\ pc' = "save"
    /\ Frame

\* self.id3.save(v2_version=3): retag() has finished
Save ==
    /\ pc = "save"
    /\ pc' = "saved"
    /\ UNCHANGED <<flac_keys, id3, writes, valid_keys>>
    /\ Frame

----------------------------------------------------------------------------
(* Inputs: files are drawn as lists of at most MaxTags entries, the        *)
(* entries of one field adjacent (the order of different fields in the    *)
(* file never decides anything but the order of flac_keys).               *)

\* the lists over 1..n of length at most m whose elements never decrease
RECURSIVE Sorted(_, _)
Sorted(n, m) ==
    IF m = 0 THEN {<<>>}
    ELSE LET prev == Sorted(n, m - 1)
             long == {p \in prev : Len(p) = m - 1}
             more == {Append(p, x) : p \in long, x \in 1..n}
         IN  prev \cup {s \in more : m = 1 \/ s[m - 1] <= s[m]}

FilesOver(pairs, m) ==
    {[i \in 1..Len(s) |-> pairs[s[i]]] : s \in Sorted(Len(pairs), m)}

RetagEntries ==
    << <<"ARTIST", "Pink Floyd">>, <<"Title", "Dogs">>, <<"GENRE", " ">>,
       <<"TRACKNUMBER", "3">>, <<"TRACKTOTAL", "">>, <<"TRACKTOTAL", "12">>,
       <<"TOTALTRACKS", "11">>,
       <<"DISCNUMBER", "2">>, <<"DISCTOTAL", "4">>, <<"TOTALDISCS", "5">>,
       <<"COPYRIGHT", "EMI">>, <<"COMMENT", "rip">> >>

InitRetag ==
    /\ tags \in FilesOver(RetagEntries, MaxTags)
    /\ count \in 0..MaxCount
    /\ multidisc \in BOOLEAN
    /\ flac_keys = NewFlacKeys(tags)
    /\ id3 = EmptyId3
    /\ writes = <<>>
    /\ valid_keys = DefaultValidKeys
    /\ pc = "essentials"
    /\ ret = [op |-> "new", arg |-> "", ok |-> TRUE, val |-> ""]
    /\ files = <<>>
    /\ idx = 0
    /\ scan = <<>>
    /\ namer = <<>>
    /\ newdir = FALSE

Init == InitRetag

Next == Essentials \/ Tracks \/ Discs \/ Drop \/ Known \/ Custom \/ Save

Spec == Init /\ [][Next]_vars

----------------------------------------------------------------------------
(* Taginfo used on its own: calls made on one freshly constructed object *)

RequiredKeys == <<"ARTIST", "ALBUM", "DATE">>

\* the first key of RequiredKeys that has() rejects, 0 when there is none
FirstMissing(ks) ==
    IF \A i \in 1..Len(RequiredKeys) : Has(ks, RequiredKeys[i]) THEN 0
    ELSE CHOOSE i \in 1..Len(RequiredKeys) :
            /\ ~Has(ks, RequiredKeys[i])
            /\ \A j \in 1..(i-1) : Has(ks, RequiredKeys[j])

\* Exception('Not {} information to craft dir name'.format(required))
MissingMessage(required) == "Not " \o required \o " information to craft dir name"

\* "{} - {} ({}) [{}]".format(artist, album, date, mp3_mode)
DirName(artist, album, date, mp3_mode) ==
    artist \o " - " \o album \o " (" \o date \o ") [" \o mp3_mode \o "]"

\* get_release_dir_name, flac_keys afterwards when nothing is missing
DirNameKeys(ks) ==
    ConsumeKeys(ConsumeKeys(ConsumeKeys(ks, "ARTIST"), "ALBUM"), "DATE")

\* get_release_dir_name as a whole: [ok, val, keys]
ReleaseDirName(t, ks, mp3_mode) ==
    LET m == FirstMissing(ks)
    IN  IF m # 0
        THEN [ok |-> FALSE, val |-> MissingMessage(RequiredKeys[m]), keys |-> ks]
        ELSE [ok |-> TRUE,
              val |-> DirName(ConsumeValue(t, "ARTIST"), ConsumeValue(t, "ALBUM"),
                              ConsumeValue(t, "DATE"), mp3_mode),
              keys |-> DirNameKeys(ks)]

\* get_discnumber as a whole: [ok, val, keys]; int() raises after the consume
Discnumber(t, ks) ==
    IF Has(ks, "DISCNUMBER")
    THEN LET v == ConsumeValue(t, "DISCNUMBER")
         IN  [ok |-> IsInt(v), val |-> IntOf(v), keys |-> ConsumeKeys(ks, "DISCNUMBER")]
    ELSE [ok |-> TRUE, val |-> 1, keys |-> ks]

TaginfoFrame ==
    UNCHANGED <<tags, id3, writes, valid_keys, count, multidisc, pc,
                files, idx, scan, namer, newdir>>

\* consume(key): self.flac[key] raises KeyError, flac_keys.remove ValueError
ConsumeCall(key) ==
    /\ pc = "taginfo"
    /\ IF ~FlacHas(tags, key)
       THEN /\ ret' = [op |-> "consume", arg |-> key, ok |-> FALSE, val |-> "KeyError"]
            /\ UNCHANGED flac_keys
       ELSE IF ~In(key, flac_keys)
       THEN /\ ret' = [op |-> "consume", arg |-> key, ok |-> FALSE, val |-> "ValueError"]
            /\ UNCHANGED flac_keys
       ELSE /\ ret' = [op |-> "consume", arg |-> key, ok |-> TRUE,
                       val |-> ConsumeValue(tags, key)]
            /\ flac_keys' = ConsumeKeys(flac_keys, key)
    /\ TaginfoFrame

GetDiscnumberCall ==
    /\ pc = "taginfo"
    /\ LET r == Discnumber(tags, flac_keys)
       IN  /\ ret' = [op |-> "get_discnumber", arg |-> "", ok |-> r.ok,
                      val |-> IF r.ok THEN ToString(r.val) ELSE "ValueError"]
           /\ flac_keys' = r.keys
    /\ TaginfoFrame

GetReleaseDirNameCall(mp3_mode) ==
    /\ pc = "taginfo"
    /\ LET r == ReleaseDirName(tags, flac_keys, mp3_mode)
       IN  /\ ret' = [op |-> "get_release_dir_name", arg |-> mp3_mode,
                      ok |-> r.ok, val |-> r.val]
           /\ flac_keys' = r.keys
    /\ TaginfoFrame

Modes == {"V0", "320"}

\* the keys the calls are made with: active, blank, absent, wrong case
CallKeys == {"ARTIST", "ALBUM", "DATE", "DISCNUMBER", "ALBUM ARTIST",
             "ALBUMARTIST", "GENRE", "TITLE", "artist"}

TaginfoEntries ==
    << <<"ARTIST", "Pink Floyd">>, <<"ALBUM", "Animals">>, <<"DATE", "1977">>,
       <<"DISCNUMBER", "2">>, <<"DISCNUMBER", "1/2">>,
       <<"Album Artist", "A">>, <<"ALBUMARTIST", "A">>, <<"ALBUMARTIST", "B">>,
       <<"GENRE", " ">>, <<"GENRE", "Rock">> >>

InitTaginfo ==
    /\ tags \in FilesOver(TaginfoEntries, MaxTags)
    /\ flac_keys = NewFlacKeys(tags)
    /\ pc = "taginfo"
    /\ ret = [op |-> "new", arg |-> "", ok |-> TRUE, val |-> ""]
    /\ count = 0
    /\ multidisc = FALSE
    /\ id3 = EmptyId3
    /\ writes = <<>>
    /\ valid_keys = DefaultValidKeys
    /\ files = <<>>
    /\ idx = 0
    /\ scan = <<>>
    /\ namer = <<>>
    /\ newdir = FALSE

NextTaginfo ==
    \/ \E key \in CallKeys : ConsumeCall(key)
    \/ GetDiscnumberCall
    \/ \E m \in Modes : GetReleaseDirNameCall(m)

SpecTaginfo == InitTaginfo /\ [][NextTaginfo]_vars

----------------------------------------------------------------------------
(* Recoder: recode_dir and recode_new_dir over the FLACs of a directory *)

\* __get_multidisc, the Taginfo objects it creates: one per path
ScanKeys(fs) == [i \in 1..Len(fs) |-> Discnumber(fs[i], NewFlacKeys(fs[i])).keys]

\* __get_multidisc, TRUE when every int() succeeds
ScanOk(fs) == \A i \in 1..Len(fs) : Discnumber(fs[i], NewFlacKeys(fs[i])).ok

\* __get_multidisc: max(...) > 1
GetMultidisc(fs) == \E i \in 1..Len(fs) : Discnumber(fs[i], NewFlacKeys(fs[i])).val > 1

\* a Retagger that reuses the Taginfo object the multi-disc scan made
RetaggerKeysShared(i) == scan[i]

\* Retagger(str(flac), ...): Taginfo.__init__ reads the file again
RetaggerKeys(i) == NewFlacKeys(files[i])

\* recode_dir / recode_new_dir up to "Finally recode"
Prepare ==
    /\ pc = "prepare"
    /\ scan' = ScanKeys(files)
    /\ IF ~ScanOk(files)
       THEN /\ pc' = "failed"
            /\ ret' = [op |-> "get_discnumber", arg |-> "", ok |-> FALSE,
                       val |-> "ValueError"]
            /\ UNCHANGED <<multidisc, namer>>
       ELSE /\ multidisc' = GetMultidisc(files)
            /\ IF newdir
               THEN \E m \in Modes :
                      LET r == ReleaseDirName(files[1], NewFlacKeys(files[1]), m)
                      IN  /\ namer' = r.keys
                          /\ ret' = [op |-> "get_release_dir_name", arg |-> m,
                                     ok |-> r.ok, val |-> r.val]
                          /\ pc' = IF r.ok THEN "recode" ELSE "failed"
               ELSE /\ pc' = "recode"
                    /\ UNCHANGED <<namer, ret>>
    /\ UNCHANGED <<tags, flac_keys, id3, writes, valid_keys, count, files, idx, newdir>>

\* __recode_file_impl up to retagger.retag(): a new Retagger on a new mp3
RecodeFile ==
    /\ pc \in {"recode", "saved"}
    /\ idx < Len(files)
    /\ idx' = idx + 1
    /\ tags' = files[idx + 1]
    /\ flac_keys' = RetaggerKeys(idx + 1)
    /\ id3' = EmptyId3
    /\ writes' = <<>>
    /\ count' = Len(files)
    /\ pc' = "essentials"
    /\ UNCHANGED <<valid_keys, multidisc, ret, files, scan, namer, newdir>>

\* the loop over the FLACs has ended
Done ==
    /\ pc \in {"recode", "saved"}
    /\ idx = Len(files)
    /\ pc' = "done"
    /\ UNCHANGED <<tags, flac_keys, id3, writes, valid_keys, count, multidisc,
                   ret, files, idx, scan, namer, newdir>>

BatchFiles ==
    { << <<"ARTIST", "Pink Floyd">>, <<"ALBUM", "Animals">>, <<"DATE", "1977">>,
         <<"DISCNUMBER", "1">>, <<"DISCTOTAL", "2">>, <<"TRACKNUMBER", "3">> >>,
      << <<"ARTIST", "Pink Floyd">>, <<"ALBUM", "Animals">>, <<"DATE", "1977">>,
         <<"DISCNUMBER", "2">>, <<"DISCTOTAL", "2">>, <<"COMMENT", "rip">> >>,
      << <<"ARTIST", "Pink Floyd">>, <<"ARTIST", "Roger Waters">>,
         <<"DATE", "1977">>, <<"DISCNUMBER", "2">>, <<"TOTALDISCS", "2">> >>,
      << <<"ARTIST", "Pink Floyd">>, <<"ALBUM", "Animals">>, <<"ALBUM", "Animals">>,
         <<"DATE", "1977">>, <<"Title", "Dogs">> >>,
      << <<"ALBUM", "Animals">>, <<"DATE", " ">>, <<"DISCNUMBER", "2">>,
         <<"DISCNUMBER", "2">>, <<"DISCNUMBER", "2">>, <<"DISCTOTAL", "2">> >>,
      << <<"ARTIST", "Pink Floyd">>, <<"DISCNUMBER", "1/2">> >> }

InitBatch ==
    /\ files \in UNION {[1..n -> BatchFiles] : n \in 1..NumFlacs}
    /\ newdir \in BOOLEAN
    /\ pc = "prepare"
    /\ idx = 0
    /\ scan = <<>>
    /\ namer = <<>>
    /\ tags = <<>>
    /\ flac_keys = <<>>
    /\ id3 = EmptyId3
    /\ writes = <<>>
    /\ valid_keys = DefaultValidKeys
    /\ count = 0
    /\ multidisc = FALSE
    /\ ret = [op |-> "new", arg |-> "", ok |-> TRUE, val |-> ""]

NextBatch ==
    \/ Prepare
    \/ RecodeFile
    \/ Essentials \/ Tracks \/ Discs \/ Drop \/ Known \/ Custom \/ Save
    \/ Done

SpecBatch == InitBatch /\ [][NextBatch]_vars

----------------------------------------------------------------------------
(* Properties of the mapping pass (Spec) *)

\* the active keys when the pass started, and the first value of a field
Start == NewFlacKeys(tags)

First(key) == ConsumeValue(tags, key)

Assigned(dest) == dest \in DOMAIN id3

\* some field of the file is active with several entries
SeveralValues == \E i \in 1..Len(Start) : Occ(Start[i], Start) > 1

\* every active field of the file has exactly one entry
OneValueEach == ~SeveralValues

\* C1: Completeness - when retag() finishes, flac_keys is empty, for every
\* source tag set (fields may have several values), item count and
\* multi-disc flag.
C1_Completeness == pc \in {"save", "saved"} => flac_keys = <<>>

\* a finished pass over a file with a field of several values, a custom
\* field forwarded and a numbering field discarded
C1_Witness ==
    /\ pc = "saved"
    /\ SeveralValues
    /\ In("COMMENT", Start)
    /\ In("TOTALTRACKS", Start)
    /\ Assigned("comment")
    /\ flac_keys = <<>>

\* C2: No duplicate destination writes - within one pass no destination
\* field (compared ignoring case) is assigned more than once, also when a
\* source field has several values.
C2_NoDuplicateWrites ==
    \A i, j \in 1..Len(writes) : i # j => writes[i][2] # writes[j][2]

\* C3: Track total priority - with TRACKNUMBER active at the start, the
\* destination track field after the pass is position/TRACKTOTAL if TRACKTOTAL
\* is active, else position/TOTALTRACKS if TOTALTRACKS is active, else
\* position/count if an item count was supplied; without an active
\* TRACKNUMBER no track field is assigned.
C3_TrackTotalPriority ==
    pc = "saved" =>
        IF In("TRACKNUMBER", Start)
        THEN IF In("TRACKTOTAL", Start)
             THEN /\ Assigned("tracknumber")
                  /\ id3["tracknumber"] = Join(First("TRACKNUMBER"), First("TRACKTOTAL"))
             ELSE IF In("TOTALTRACKS", Start)
             THEN /\ Assigned("tracknumber")
                  /\ id3["tracknumber"] = Join(First("TRACKNUMBER"), First("TOTALTRACKS"))
             ELSE IF count # 0
             THEN /\ Assigned("tracknumber")
                  /\ id3["tracknumber"] = Join(First("TRACKNUMBER"), ToString(count))
             ELSE TRUE
        ELSE ~Assigned("tracknumber")

\* C4: Bare track position - with TRACKNUMBER active, neither total field
\* active and no item count, the pass consumes TRACKNUMBER and assigns the
\* destination track field the bare position.
C4_BareTrackPosition ==
    ( /\ pc = "saved"
      /\ In("TRACKNUMBER", Start)
      /\ ~In("TRACKTOTAL", Start)
      /\ ~In("TOTALTRACKS", Start)
      /\ count = 0 )
    => /\ ~In("TRACKNUMBER", flac_keys)
       /\ Assigned("tracknumber")
       /\ id3["tracknumber"] = First("TRACKNUMBER")

DiscDests == {"discnumber", "disctotal", "totaldiscs"}

\* C5: Disc suppression - with the multi-disc flag false no disc destination
\* field is assigned and none of DISCNUMBER, DISCTOTAL, TOTALDISCS is written
\* to the destination by any rule group.
C5_DiscSuppression ==
    ~multidisc =>
        /\ \A i \in 1..Len(writes) : writes[i][2] \notin DiscDests
        /\ \A d \in DiscDests : ~Assigned(d)

\* C6: Disc composite - the disc destination field is assigned exactly when
\* the flag is true, DISCNUMBER is active and DISCTOTAL or TOTALDISCS is
\* active; the value is position/total, the total taken from DISCTOTAL when
\* active and from TOTALDISCS otherwise.
C6_DiscComposite ==
    pc = "saved" =>
        LET due == /\ multidisc
                   /\ In("DISCNUMBER", Start)
                   /\ (In("DISCTOTAL", Start) \/ In("TOTALDISCS", Start))
        IN  /\ Assigned("discnumber") <=> due
            /\ due => id3["discnumber"] =
                        Join(First("DISCNUMBER"),
                             IF In("DISCTOTAL", Start) THEN First("DISCTOTAL")
                             ELSE First("TOTALDISCS"))

\* The numbering and no-rewrite rules on files whose active fields have one
\* entry each: C2, C3, C5 and C6 read on these files only.
OneValue_NoDuplicateWrites == OneValueEach => C2_NoDuplicateWrites

OneValue_TrackTotalPriority == OneValueEach => C3_TrackTotalPriority

OneValue_DiscSuppression == OneValueEach => C5_DiscSuppression

OneValue_DiscComposite == OneValueEach => C6_DiscComposite

\* a track number without any total, on such a file, is never assigned
OneValue_TrackDropped ==
    ( /\ pc = "saved"
      /\ OneValueEach
      /\ In("TRACKNUMBER", Start)
      /\ ~In("TRACKTOTAL", Start)
      /\ ~In("TOTALTRACKS", Start)
      /\ count = 0 )
    => ~Assigned("tracknumber")

----------------------------------------------------------------------------
(* Properties of Taginfo (SpecTaginfo) *)

\* C7: Release label - get_release_dir_name fails exactly when one of ARTIST,
\* ALBUM, DATE is not active, naming the first inactive one in that order;
\* when all are active it consumes all three (none is active afterwards) and
\* returns 'artist - album (date) [mode]' from their first values.
C7_ReleaseLabel ==
    [][\A m \in Modes :
         GetReleaseDirNameCall(m) =>
            LET missing == {i \in 1..3 : ~Has(flac_keys, RequiredKeys[i])}
            IN  IF missing # {}
                THEN /\ ~ret'.ok
                     /\ \E i \in missing :
                          /\ \A j \in missing : i <= j
                          /\ ret'.val = MissingMessage(RequiredKeys[i])
                ELSE /\ ret'.ok
                     /\ ret'.val = DirName(First("ARTIST"), First("ALBUM"),
                                           First("DATE"), m)
                     /\ \A i \in 1..3 : ~Has(flac_keys', RequiredKeys[i])]_vars

\* the same without the requirement that the three fields are gone afterwards
ReleaseLabel_ResultOnly ==
    [][\A m \in Modes :
         GetReleaseDirNameCall(m) =>
            LET missing == {i \in 1..3 : ~Has(flac_keys, RequiredKeys[i])}
            IN  IF missing # {}
                THEN /\ ~ret'.ok
                     /\ \E i \in missing :
                          /\ \A j \in missing : i <= j
                          /\ ret'.val = MissingMessage(RequiredKeys[i])
                     /\ flac_keys' = flac_keys
                ELSE /\ ret'.ok
                     /\ ret'.val = DirName(First("ARTIST"), First("ALBUM"),
                                           First("DATE"), m)
                     /\ \A i \in 1..3 :
                          Occ(RequiredKeys[i], flac_keys') =
                              Occ(RequiredKeys[i], flac_keys) - 1]_vars

\* C8: Consume-once - a successful consume(name) returns the first value and
\* removes name from the active set, so has(name) is false right afterwards
\* (a second consume(name) fails); consume(name) on a name that is not
\* active fails and leaves the active set unchanged.
C8_ConsumeOnce ==
    [][\A key \in CallKeys :
         ConsumeCall(key) =>
            IF Has(flac_keys, key)
            THEN /\ ret'.ok
                 /\ ret'.val = First(key)
                 /\ ~Has(flac_keys', key)
            ELSE /\ ~ret'.ok
                 /\ flac_keys' = flac_keys]_vars

\* the same on fields with one entry: after consume(name), has(name) is false
OneValue_ConsumeOnce ==
    [][\A key \in CallKeys :
         (ConsumeCall(key) /\ Occ(key, flac_keys) <= 1) =>
            IF Has(flac_keys, key)
            THEN /\ ret'.ok
                 /\ ret'.val = First(key)
                 /\ ~Has(flac_keys', key)
            ELSE /\ ~ret'.ok
                 /\ flac_keys' = flac_keys]_vars

UpperNames == {"ARTIST", "ALBUM", "DATE", "DISCNUMBER", "ALBUM ARTIST",
               "ALBUMARTIST", "GENRE", "TITLE"}

Blank(vs) == \A i \in 1..Len(vs) : Strip(vs[i]) = ""

\* C9: Synonym collapse at construction - with 'ALBUM ARTIST' and
\* 'ALBUMARTIST' both non-empty: identical values leave exactly one of the two
\* names active, different values leave both; every active name is upper-case
\* and its field has a value that is non-empty after trimming.
C9_SynonymCollapse ==
    ret.op = "new" =>
        LET a == FlacGet(tags, "ALBUM ARTIST")
            b == FlacGet(tags, "ALBUMARTIST")
            both == a # <<>> /\ b # <<>> /\ ~Blank(a) /\ ~Blank(b)
                      /\ Strip(a[1]) # "" /\ Strip(b[1]) # ""
        IN  /\ (both /\ a = b) =>
                  (In("ALBUM ARTIST", flac_keys) # In("ALBUMARTIST", flac_keys))
            /\ (both /\ a # b) =>
                  (In("ALBUM ARTIST", flac_keys) /\ In("ALBUMARTIST", flac_keys))
            /\ \A i \in 1..Len(flac_keys) :
                  /\ flac_keys[i] \in UpperNames
                  /\ ~Blank(FlacGet(tags, flac_keys[i]))

\* the same when the two synonyms have one entry each
OneValue_SynonymCollapse ==
    (Len(FlacGet(tags, "ALBUM ARTIST")) <= 1 /\ Len(FlacGet(tags, "ALBUMARTIST")) <= 1)
        => C9_SynonymCollapse

----------------------------------------------------------------------------
(* Properties of the directory run (SpecBatch) *)

HasDiscTotal(ks) == In("DISCTOTAL", ks) \/ In("TOTALDISCS", ks)

\* C10: Batch independence - what the multi-disc scan (DISCNUMBER, every
\* item) and the directory name (ARTIST, ALBUM, DATE, first item) consumed is
\* still active when an item's own pass starts: the first item's destination
\* gets artist, album and date whenever its source has them, and in a
\* multi-disc batch an item with DISCNUMBER and a disc total gets its disc
\* field.
C10_BatchIndependence ==
    LET src == NewFlacKeys(files[idx])
    IN  /\ pc = "essentials" =>
              \A k \in {"DISCNUMBER", "ARTIST", "ALBUM", "DATE"} :
                  In(k, src) => In(k, flac_keys)
        /\ (pc = "saved" /\ idx = 1) =>
              \A k \in {"ARTIST", "ALBUM", "DATE"} :
                  In(k, src) => (Assigned(Lower(k)) /\ id3[Lower(k)] = First(k))
        /\ (pc = "saved" /\ multidisc /\ In("DISCNUMBER", src) /\ HasDiscTotal(src))
              => Assigned("discnumber")

\* the first item of a multi-disc recode_new_dir run has been mapped: the
\* scan and the directory name consumed its fields on their own objects
C10_Witness ==
    /\ pc = "saved"
    /\ idx = 1
    /\ newdir
    /\ multidisc
    /\ ret.op = "get_release_dir_name" /\ ret.ok
    /\ ~In("ARTIST", namer) /\ ~In("ALBUM", namer) /\ ~In("DATE", namer)
    /\ In("DISCNUMBER", NewFlacKeys(files[1]))
    /\ ~In("DISCNUMBER", scan[1])
    /\ Assigned("artist") /\ Assigned("album") /\ Assigned("date")
    /\ Assigned("discnumber")

====
